---- MODULE Spec2Model ----
(***************************************************************************)
(* Model of src/exif.ts: parseExif locates the APP1 segment of a JPEG      *)
(* byte buffer, validates the TIFF header and decodes the 0th IFD.         *)
(*                                                                         *)
(* The buffer is the ArrayBuffer handed to the `.then` callback of         *)
(* parseExif.  It is kept as an explicit prefix `bytes` followed by        *)
(* `length - Len(bytes)` copies of the byte `fill`, so that a buffer of    *)
(* the full 64 KiB slice can be held without enumerating 65536 bytes.      *)
(* The callback runs to completion without suspension; the model cuts it   *)
(* at its loop heads and calls, `pc` being the position reached.           *)
(***************************************************************************)
EXTENDS Integers, Sequences, FiniteSets, TLC

VARIABLES bytes, length, fill,       \* the ArrayBuffer / DataView
          pc,                        \* position inside the callback
          offset,                    \* `offset` of parseExif / parseAPP1Segment / getTags
          isLittleEndian, iFDOffset, \* locals of parseAPP1Segment handed to getTags
          countTags, i, tags,        \* locals of getTags
          state, result,             \* the promise parseExif returns
          reads,                     \* history: every DataView read attempted
          iterations                 \* history: segments the search loop went over

vars == <<bytes, length, fill, pc, offset, isLittleEndian, iFDOffset,
          countTags, i, tags, state, result, reads, iterations>>

----------------------------------------------------------------------------
(* MARKERS, lines 54-62 *)
EOI == 255 * 256 + 217
SIO == 65496
APP1 == 65505
EIC == 1165519206
BYTE_ORDER_LITTLE_ENDIAN == 18761
BYTE_ORDER_BIG_ENDIAN == 19789
F42 == 42
IFD0_OFFSET == 8

(* readImageAsBuffer(file, 64 * 1024, 0): at most the first 64 KiB *)
SliceLength == 65536

(* Every tag takes 12 bytes *)
EntrySize == 12

(* TIFF_TAGS, lines 64-76 *)
TIFF_TAGS ==
  (270 :> "ImageDescription") @@ (271 :> "Make") @@ (272 :> "Model") @@
  (274 :> "Orientation") @@ (282 :> "XResolution") @@ (283 :> "YResolution") @@
  (296 :> "ResolutionUnit") @@ (306 :> "DateTime") @@ (531 :> "YCbCrPositioning") @@
  (33432 :> "CopyRight") @@ (34665 :> "Exif IFD Pointer")

(* TIFF_TAGS[id]: the name, or undefined for an id that is no key *)
Undefined == "undefined"
TagNameOrDefault(id) == IF id \in DOMAIN TIFF_TAGS THEN TIFF_TAGS[id] ELSE "Unknown"
TagName(id) == IF id \in DOMAIN TIFF_TAGS THEN TIFF_TAGS[id] ELSE Undefined

----------------------------------------------------------------------------
(* DataView *)

Range(s) == {s[n] : n \in DOMAIN s}

(* the byte at index o of the buffer *)
Byte(o) == IF o < Len(bytes) THEN bytes[o + 1] ELSE fill

(* one DataView read: getUint8 / getUint16 / getUint32 at byte offset `at`, *)
(* with the littleEndian argument passed (FALSE when it is omitted)         *)
Read(what, at, size, littleEndian) ==
  [what |-> what, at |-> at, size |-> size, littleEndian |-> littleEndian]

(* DataView throws a RangeError when the span leaves the buffer *)
ThrowsNever(r) == FALSE
Throws(r) == r.at + r.size > length

RECURSIVE BigEndian(_, _)
BigEndian(at, size) ==
  IF size = 0 THEN 0 ELSE 256 * BigEndian(at, size - 1) + Byte(at + size - 1)

RECURSIVE LittleEndian(_, _)
LittleEndian(at, size) ==
  IF size = 0 THEN 0 ELSE Byte(at) + 256 * LittleEndian(at + 1, size - 1)

(* the number the read returns *)
ValueOf(r) ==
  IF r.littleEndian THEN LittleEndian(r.at, r.size) ELSE BigEndian(r.at, r.size)

(* the reads of `rs` the program gets to: all of them, or those up to and *)
(* including the first that throws                                        *)
FirstThrow(rs) ==
  IF \E n \in DOMAIN rs : Throws(rs[n])
  THEN CHOOSE n \in DOMAIN rs : Throws(rs[n]) /\ \A m \in 1..(n - 1) : ~Throws(rs[m])
  ELSE 0

Attempted(rs) == IF FirstThrow(rs) = 0 THEN rs ELSE SubSeq(rs, 1, FirstThrow(rs))

----------------------------------------------------------------------------
(* JavaScript values *)

Null == [kind |-> "null"]
False == [kind |-> "boolean", value |-> FALSE]
Number(n) == [kind |-> "number", value |-> n]
String(chars) == [kind |-> "string", chars |-> chars]
Error(message) == [kind |-> "error", message |-> message]
Object(entries) == [kind |-> "object", entries |-> entries]

RECURSIVE Gcd(_, _)
Gcd(a, b) == IF b = 0 THEN a ELSE Gcd(b, a % b)

(* numerator / denominator: the quotient in lowest terms; 1/0 stands for *)
(* Infinity and 0/0 for NaN (the rounding of the double is left out)     *)
Quotient(numerator, denominator) ==
  LET g == Gcd(numerator, denominator)
  IN IF g = 0 THEN [n |-> 0, d |-> 0]
     ELSE [n |-> numerator \div g, d |-> denominator \div g]

Rational(numerator, denominator) ==
  [kind |-> "rational", value |-> Quotient(numerator, denominator),
   numerator |-> numerator, denominator |-> denominator]

(* tags[tag] = value on an object kept in insertion order: a key already *)
(* present keeps its place and takes the new value                       *)
Put(obj, tag, value) ==
  IF \E n \in DOMAIN obj : obj[n].name = tag
  THEN [n \in DOMAIN obj |->
          IF obj[n].name = tag THEN [name |-> tag, value |-> value] ELSE obj[n]]
  ELSE Append(obj, [name |-> tag, value |-> value])

Keys(obj) == {obj[n].name : n \in DOMAIN obj}
Get(obj, tag) == obj[CHOOSE n \in DOMAIN obj : obj[n].name = tag].value

----------------------------------------------------------------------------
(* getStringFromBinaryCode, lines 247-253: `len` reads of one byte from    *)
(* `start` on, none when len <= 0.  The outcome of a call is               *)
(* [reads, thrown, value]; a call that throws returns no value (Null is a  *)
(* placeholder then)                                                       *)
getStringFromBinaryCode(start, len) ==
  LET times == IF len > 0 THEN len ELSE 0
      rs == [n \in 1..times |-> Read("char", start + n - 1, 1, FALSE)]
  IN [reads |-> Attempted(rs),
      thrown |-> FirstThrow(rs) # 0,
      value |-> IF FirstThrow(rs) # 0 THEN Null
                ELSE String([n \in 1..times |-> ValueOf(rs[n])])]

(* line 225: where the characters of an ASCII value are *)
DataOffsetFrom4(count, valueOffset, tagOffset) ==
  IF count >= 4 THEN valueOffset ELSE tagOffset + 8
DataOffset(count, valueOffset, tagOffset) ==
  IF count > 4 THEN valueOffset ELSE tagOffset + 8

(* line 229: the SHORT value *)
ShortReadDefaultOrder(tagOffset, littleEndian) ==
  Read("short", tagOffset + 8, 2, FALSE)
ShortRead(tagOffset, littleEndian) == Read("short", tagOffset + 8, 2, littleEndian)

(* the switch of getTagValue, lines 223-244, once type, count and *)
(* valueOffset are read                                           *)
UninitializedValue == [kind |-> "undefined"]
(* line 221: let value = null *)
InitialValue == Null

TagValueOfType(type, count, valueOffset, tagOffset, littleEndian) ==
  CASE type = 2 ->
         getStringFromBinaryCode(DataOffset(count, valueOffset, tagOffset), count - 1)
    [] type = 3 ->
         LET r == ShortRead(tagOffset, littleEndian)
         IN [reads |-> <<r>>, thrown |-> Throws(r),
             value |-> IF Throws(r) THEN Null ELSE Number(ValueOf(r))]
    [] type = 4 ->
         LET r == Read("long", tagOffset + 8, 4, littleEndian)
         IN [reads |-> <<r>>, thrown |-> Throws(r),
             value |-> IF Throws(r) THEN Null ELSE Number(ValueOf(r))]
    [] type = 5 ->
         LET n == Read("numerator", valueOffset, 4, littleEndian)
             d == Read("denominator", valueOffset + 4, 4, littleEndian)
         IN [reads |-> Attempted(<<n, d>>),
             thrown |-> FirstThrow(<<n, d>>) # 0,
             value |-> IF FirstThrow(<<n, d>>) # 0 THEN Null
                       ELSE Rational(ValueOf(n), ValueOf(d))]
    [] OTHER -> [reads |-> <<>>, thrown |-> FALSE, value |-> InitialValue]

(* getTagValue, lines 206-245; `base` is its parameter `offset` *)
getTagValue(tagOffset, base, littleEndian) ==
  LET t == Read("type", tagOffset + 2, 2, littleEndian)
      c == Read("count", tagOffset + 4, 4, littleEndian)
      v == Read("valueOffset", tagOffset + 8, 4, littleEndian)
      head == <<t, c, v>>
      body == TagValueOfType(ValueOf(t), ValueOf(c), ValueOf(v) + base,
                             tagOffset, littleEndian)
  IN IF FirstThrow(head) # 0
     THEN [reads |-> Attempted(head), thrown |-> TRUE, value |-> Null]
     ELSE [reads |-> head \o body.reads, thrown |-> body.thrown, value |-> body.value]

----------------------------------------------------------------------------
(* the promise parseExif returns *)

Settle(how, value, rs) ==
  /\ state' = how
  /\ result' = value
  /\ reads' = reads \cup Range(rs)
  /\ pc' = "done"
  /\ UNCHANGED <<iterations, bytes, length, fill, offset, isLittleEndian, iFDOffset,
                 countTags, i, tags>>

Resolve(value, rs) == Settle("fulfilled", value, rs)
Reject(message, rs) == Settle("rejected", Error(message), rs)
(* a RangeError thrown inside the .then callback rejects the promise that *)
(* .then returns; .catch hands it to reject, lines 119-121                *)
Throw(rs) == Reject("RangeError", rs)

(* fileReader.onerror, lines 140-142, handed on by .catch *)
Onerror ==
  /\ pc = "readImageAsBuffer"
  /\ Reject("Error reading file", <<>>)

(* fileReader.onload, lines 129-138: the buffer reaches the callback *)
(* (readAsArrayBuffer never yields a string, so line 133 is not run) *)
Onload ==
  /\ pc = "readImageAsBuffer"
  /\ pc' = "then"
  /\ UNCHANGED <<iterations, bytes, length, fill, offset, isLittleEndian, iFDOffset,
                 countTags, i, tags, state, result, reads>>

(* lines 87-98 *)
CheckSIO ==
  /\ pc = "then"
  /\ LET s == Read("SIO", offset, 2, FALSE)
     IN IF Throws(s) THEN Throw(<<s>>)
        ELSE IF ValueOf(s) # SIO THEN Reject("Wrong JPEG", <<s>>)
        ELSE /\ offset' = offset + 2
             /\ pc' = "while"
             /\ reads' = reads \cup {s}
             /\ UNCHANGED <<iterations, bytes, length, fill, isLittleEndian, iFDOffset,
                            countTags, i, tags, state, result>>

(* line 108: const segmentLength = dataView.getUint16(offset) *)
SegmentLengthAfterMarker(off) == Read("segmentLength", off + 2, 2, FALSE)
SegmentLengthRead(off) == Read("segmentLength", off, 2, FALSE)

(* one iteration of the APP1-segment search, lines 101-117 *)
ScanSegment ==
  /\ pc = "while"
  /\ offset < length
  /\ LET p == Read("prefix", offset, 1, FALSE)
         t == Read("segmentType", offset, 2, FALSE)
         l == SegmentLengthRead(offset)
     IN IF Throws(p) THEN Throw(<<p>>)
        ELSE IF ValueOf(p) # 255 THEN Reject("Wrong marker", <<p>>)
        ELSE IF FirstThrow(<<t, l>>) # 0 THEN Throw(<<p>> \o Attempted(<<t, l>>))
        ELSE /\ IF ValueOf(t) = APP1
                THEN pc' = "parseAPP1Segment" /\ offset' = offset
                ELSE pc' = "while" /\ offset' = offset + ValueOf(l)
             /\ reads' = reads \cup {p, t, l}
             /\ iterations' = iterations + 1
             /\ UNCHANGED <<bytes, length, fill, isLittleEndian, iFDOffset,
                            countTags, i, tags, state, result>>

(* the while condition fails: the callback returns, and neither resolve *)
(* nor reject was called                                                *)
ScanEnd ==
  /\ pc = "while"
  /\ ~(offset < length)
  /\ pc' = "done"
  /\ UNCHANGED <<iterations, bytes, length, fill, offset, isLittleEndian, iFDOffset,
                 countTags, i, tags, state, result, reads>>

(* parseAPP1Segment, lines 148-180, up to its call of getTags; a return of *)
(* false is handed to resolve by line 111                                  *)
ParseAPP1Segment ==
  /\ pc = "parseAPP1Segment"
  /\ LET base == offset + 4 + 6
         e == Read("EIC", offset + 4, 4, FALSE)
         o == Read("byteOrder", base, 2, FALSE)
         le == ValueOf(o) = BYTE_ORDER_LITTLE_ENDIAN
         m == Read("F42", base + 2, 2, le)
         f == Read("iFDOffset", base + 4, 4, le)
     IN IF Throws(e) THEN Throw(<<e>>)
        ELSE IF ValueOf(e) # EIC THEN Resolve(False, <<e>>)
        ELSE IF Throws(o) THEN Throw(<<e, o>>)
        ELSE IF ValueOf(o) \notin {BYTE_ORDER_LITTLE_ENDIAN, BYTE_ORDER_BIG_ENDIAN}
             THEN Resolve(False, <<e, o>>)
        ELSE IF Throws(m) THEN Throw(<<e, o, m>>)
        ELSE IF ValueOf(m) # F42 THEN Resolve(False, <<e, o, m>>)
        ELSE IF Throws(f) THEN Throw(<<e, o, m, f>>)
        ELSE IF ValueOf(f) < IFD0_OFFSET THEN Resolve(False, <<e, o, m, f>>)
        ELSE /\ offset' = base
             /\ isLittleEndian' = le
             /\ iFDOffset' = ValueOf(f)
             /\ pc' = "getTags"
             /\ reads' = reads \cup {e, o, m, f}
             /\ UNCHANGED <<iterations, bytes, length, fill, countTags, i, tags, state, result>>

(* lines 183 and 188 *)
ifd0Offset == offset + iFDOffset
entriesStartOffset == ifd0Offset + 2

(* getTags up to its loop, lines 183-189 *)
GetTags ==
  /\ pc = "getTags"
  /\ LET c == Read("countTags", ifd0Offset, 2, isLittleEndian)
     IN IF Throws(c) THEN Throw(<<c>>)
        ELSE /\ countTags' = ValueOf(c)
             /\ i' = 0
             /\ tags' = <<>>
             /\ pc' = "for"
             /\ reads' = reads \cup {c}
             /\ UNCHANGED <<iterations, bytes, length, fill, offset, isLittleEndian,
                            iFDOffset, state, result>>

(* one iteration of the loop of getTags, lines 191-201; `break` leads to *)
(* line 203 and to resolve                                               *)
TagEntry ==
  /\ pc = "for"
  /\ i < countTags
  /\ LET tagOffset == entriesStartOffset + i * EntrySize
         t == Read("tagId", tagOffset, 2, isLittleEndian)
         tag == TagName(ValueOf(t))
         v == getTagValue(tagOffset, offset, isLittleEndian)
     IN IF Throws(t) THEN Throw(<<t>>)
        ELSE IF tag = Undefined THEN Resolve(Object(tags), <<t>>)
        ELSE IF v.thrown THEN Throw(<<t>> \o v.reads)
        ELSE /\ tags' = Put(tags, tag, v.value)
             /\ i' = i + 1
             /\ reads' = reads \cup {t} \cup Range(v.reads)
             /\ UNCHANGED <<iterations, bytes, length, fill, pc, offset, isLittleEndian,
                            iFDOffset, countTags, state, result>>

(* the loop ran through all countTags entries: line 203, then resolve *)
TagsEnd ==
  /\ pc = "for"
  /\ ~(i < countTags)
  /\ Resolve(Object(tags), <<>>)

----------------------------------------------------------------------------
(* The files parseExif is run on, laid out as the header comment of the    *)
(* source describes (lines 4-50): SOI, marker segments, APP1 with the Exif *)
(* identifier, TIFF header, 0th IFD and its values.                        *)

(* the most entries a 0th IFD of a file holds *)
MaxEntries == 3

Encode16(v, littleEndian) ==
  IF littleEndian THEN <<v % 256, v \div 256>> ELSE <<v \div 256, v % 256>>

Encode32(v, littleEndian) ==
  IF littleEndian
  THEN <<v % 256, (v \div 256) % 256, (v \div 65536) % 256, v \div 16777216>>
  ELSE <<v \div 16777216, (v \div 65536) % 256, (v \div 256) % 256, v % 256>>

(* the values kept after the entries: "ACME" NUL, then the RATIONAL 1/2 *)
ValueArea(littleEndian) ==
  <<65, 67, 77, 69, 0>> \o Encode32(1, littleEndian) \o Encode32(2, littleEndian)

EntryKinds ==
  {"short", "long", "asciiOutOfLine", "asciiInline", "asciiEmpty", "rational",
   "rationalFar", "otherType", "unknownTag"}

(* the 12 bytes of one entry; `d` is the offset of the value area from the *)
(* TIFF header                                                             *)
EntryBytes(kind, littleEndian, d) ==
  LET E(tagId, type, count, field) ==
        Encode16(tagId, littleEndian) \o Encode16(type, littleEndian)
          \o Encode32(count, littleEndian) \o field
  IN CASE kind = "short" -> E(274, 3, 1, Encode16(1, littleEndian) \o <<0, 0>>)
       [] kind = "long" -> E(34665, 4, 1, Encode32(90, littleEndian))
       [] kind = "asciiOutOfLine" -> E(271, 2, 5, Encode32(d, littleEndian))
       [] kind = "asciiInline" -> E(272, 2, 4, Encode32(d, littleEndian))
       [] kind = "asciiEmpty" -> E(270, 2, 0, <<0, 0, 0, 0>>)
       [] kind = "rational" -> E(282, 5, 1, Encode32(d + 5, littleEndian))
       [] kind = "rationalFar" -> E(283, 5, 1, Encode32(70000, littleEndian))
       [] kind = "otherType" -> E(296, 7, 1, <<1, 0, 0, 0>>)
       [] kind = "unknownTag" -> E(39321, 3, 1, Encode16(7, littleEndian) \o <<0, 0>>)

RECURSIVE Entries(_, _, _)
Entries(kinds, littleEndian, d) ==
  IF kinds = <<>> THEN <<>>
  ELSE EntryBytes(Head(kinds), littleEndian, d) \o Entries(Tail(kinds), littleEndian, d)

Zeros(n) == [k \in 1..n |-> 0]

(* a JPEG file: `soi`, the segments `pre`, then an APP1 segment with the   *)
(* identifier `ident`, the byte-order code `order`, the TIFF fields        *)
(* written little-endian or not, the 0th IFD at `ifdAt` with `count` in    *)
(* its count field and the entries `kinds`                                 *)
File(soi, pre, ident, order, littleEndian, ifdAt, count, kinds) ==
  LET d == ifdAt + 2 + EntrySize * Len(kinds)
      tiff == order \o Encode16(F42, littleEndian) \o Encode32(ifdAt, littleEndian)
                \o Zeros(ifdAt - 8) \o Encode16(count, littleEndian)
                \o Entries(kinds, littleEndian, d) \o ValueArea(littleEndian)
  IN soi \o pre \o <<255, 225>> \o Encode16(2 + 6 + Len(tiff), FALSE)
       \o ident \o <<0, 0>> \o tiff

SOI == <<255, 216>>
Exif == <<69, 120, 105, 102>>
II == <<73, 73>>
MM == <<77, 77>>
OrderOf(littleEndian) == IF littleEndian THEN II ELSE MM

KindSeqs(S) == UNION {[1..n -> S] : n \in 0..MaxEntries}

Buffer(b, n, f) == [bytes |-> b, length |-> n, fill |-> f]
Whole(b) == Buffer(b, Len(b), 0)
(* the file is longer than the bytes written out: it goes on with `f` to *)
(* the end of the 64 KiB slice                                           *)
Padded(b, f) == Buffer(b, SliceLength, f)
(* the file ends after its first n bytes *)
Cut(b, n) == Buffer(SubSeq(b, 1, n), n, 0)

(* the kinds of entry of the files that are cut short *)
CutKinds == {"short", "asciiOutOfLine", "rational"}

Holds(b) == bytes = b.bytes /\ length = b.length /\ fill = b.fill

(* files that differ in what precedes the 0th IFD, whole or going on to *)
(* the end of the slice                                                 *)
HeaderFiles ==
  \E soi \in {SOI, <<255, 217>>},
     pre \in {<<>>, <<255, 224, 0, 4, 0, 0>>, <<255, 219, 0, 0>>, <<0, 16>>},
     ident \in {Exif, <<69, 120, 105, 0>>},
     order \in {II, MM, <<73, 77>>},
     le \in BOOLEAN,
     ifdAt \in {7, 8, 10} :
    LET b == File(soi, pre, ident, order, le, ifdAt, 1, <<"short">>)
    IN Holds(Whole(b)) \/ Holds(Padded(b, 0)) \/ Holds(Padded(b, 255))

(* well-formed headers, every IFD of up to MaxEntries entries, the count *)
(* field right or one too many                                           *)
IfdFiles ==
  \E le \in BOOLEAN, more \in {0, 1}, kinds \in KindSeqs(EntryKinds) :
    LET b == File(SOI, <<>>, Exif, OrderOf(le), le, 8, Len(kinds) + more, kinds)
    IN Holds(Whole(b)) \/ Holds(Padded(b, 0))

(* files that end anywhere before their end *)
CutFiles ==
  \E le \in BOOLEAN, kinds \in KindSeqs(CutKinds) :
    LET b == File(SOI, <<>>, Exif, OrderOf(le), le, 8, Len(kinds), kinds)
    IN \E n \in 0..(Len(b) - 1) : Holds(Cut(b, n))

----------------------------------------------------------------------------
Init ==
  /\ HeaderFiles \/ IfdFiles \/ CutFiles
  /\ pc = "readImageAsBuffer"
  /\ offset = 0
  /\ isLittleEndian = FALSE
  /\ iFDOffset = 0
  /\ countTags = 0
  /\ i = 0
  /\ tags = <<>>
  /\ state = "pending"
  /\ result = [kind |-> "undefined"]
  /\ reads = {}
  /\ iterations = 0

Next ==
  \/ Onerror
  \/ Onload
  \/ CheckSIO
  \/ ScanSegment
  \/ ScanEnd
  \/ ParseAPP1Segment
  \/ GetTags
  \/ TagEntry
  \/ TagsEnd

Spec == Init /\ [][Next]_vars

----------------------------------------------------------------------------
(* What the properties below speak of *)

Rejected(message) ==
  state = "rejected" /\ result.kind = "error" /\ result.message = message

(* the buffer reached the callback: the file read did not fail *)
Delivered == pc # "readImageAsBuffer" /\ ~Rejected("Error reading file")

BeginsWithSOI == length >= 2 /\ Byte(0) = 255 /\ Byte(1) = 216

(* some read attempted so far addressed bytes past the end of the buffer *)
OutOfBoundsRead == \E r \in reads : r.at + r.size > length

WasRead(what) == \E r \in reads : r.what = what

(* the search loop ran out of buffer without meeting APP1 *)
ScanExhausted == pc = "done" /\ WasRead("SIO") /\ offset >= 2 /\ offset >= length

(* the 0th IFD as the bytes of the buffer give it, once getTags has begun *)
InGetTags == WasRead("countTags") /\ ~OutOfBoundsRead /\ pc \in {"for", "done"}
Field(n, at, size) ==
  LET a == entriesStartOffset + n * EntrySize + at
  IN IF isLittleEndian THEN LittleEndian(a, size) ELSE BigEndian(a, size)
TagIdOf(n) == Field(n, 0, 2)
TypeOf(n) == Field(n, 2, 2)
CountOf(n) == Field(n, 4, 4)
Known(n) == TagIdOf(n) \in DOMAIN TIFF_TAGS
HasUnknown == \E n \in 0..(countTags - 1) : ~Known(n)
FirstUnknown ==
  CHOOSE k \in 0..(countTags - 1) : ~Known(k) /\ \A n \in 0..(k - 1) : Known(n)
Returned == pc = "done" /\ state = "fulfilled" /\ result.kind = "object"

----------------------------------------------------------------------------
(* C1: in the marker scan, every segment that starts with 0xFF and is not  *)
(* APP1 advances the scan offset by exactly its 2-byte length field, the   *)
(* two bytes that follow the 2-byte marker code.                           *)
C1_SkipByLengthField ==
  [][(pc = "while" /\ pc' = "while") => offset' = offset + BigEndian(offset + 2, 2)]_vars

(* C2: when the buffer begins with SOI and the scan exhausts it without    *)
(* meeting APP1, parseExif settles with an explicit NoExifData failure.    *)
C2_ExhaustedScanRejects == ScanExhausted => Rejected("NoExifData")

(* C3, as claimed: every buffer that does not begin with 0xFF 0xD8 is      *)
(* rejected with 'Wrong JPEG'.                                             *)
C3_EveryBufferWrongJpeg ==
  (pc = "done" /\ Delivered /\ ~BeginsWithSOI) => Rejected("Wrong JPEG")

(* C3, amended: a buffer of at least two bytes that does not begin with    *)
(* 0xFF 0xD8 is rejected with 'Wrong JPEG', a buffer of fewer than two     *)
(* bytes with the RangeError of the SOI read; either way no read other     *)
(* than the SOI read is made and no later step of the decode is entered.   *)
C3_WrongJpegBeforeAnyOtherCheck ==
  ~BeginsWithSOI =>
    /\ pc \in {"readImageAsBuffer", "then", "done"}
    /\ \A r \in reads : r.what = "SIO"
    /\ (pc = "done" /\ Delivered) =>
         IF length >= 2 THEN Rejected("Wrong JPEG") ELSE Rejected("RangeError")

C3_Witness ==
  pc = "done" /\ Delivered /\ length >= 2 /\ ~BeginsWithSOI /\ Rejected("Wrong JPEG")

(* C4: when an APP1 segment is found and parseAPP1Segment rejects its      *)
(* header, parseExif ends as a failure, never as a success.                *)
C4_HeaderRejectionFails ==
  (pc = "done" /\ WasRead("EIC") /\ ~WasRead("countTags") /\ ~OutOfBoundsRead)
    => state = "rejected"

(* C5: once any read has addressed bytes past the end of the buffer,       *)
(* parseExif has ended as a failure with the RangeError, and no tag        *)
(* mapping is returned, whatever was decoded before.                       *)
C5_OutOfBoundsRejects ==
  OutOfBoundsRead => (pc = "done" /\ Rejected("RangeError") /\ result.kind # "object")

C5_Witness ==
  OutOfBoundsRead /\ Len(tags) >= 1 /\ Rejected("RangeError")

(* C6: when the first unrecognized tag ID of the IFD is at index k < N     *)
(* and no read left the buffer, getTags returns and parseExif succeeds     *)
(* with a mapping whose keys are exactly the tag names of entries 0..k-1,  *)
(* each with the value of the last entry of that name; of entry k only the *)
(* tag ID is read and no entry after k is read at all.                     *)
C6_StopsAtFirstUnknownTag ==
  (pc = "done" /\ InGetTags /\ HasUnknown) =>
    LET k == FirstUnknown
    IN /\ Returned
       /\ Keys(result.entries) = {TIFF_TAGS[TagIdOf(n)] : n \in 0..(k - 1)}
       /\ \A n \in 0..(k - 1) :
            (\A m \in (n + 1)..(k - 1) : TagIdOf(m) # TagIdOf(n)) =>
              Get(result.entries, TIFF_TAGS[TagIdOf(n)])
                = getTagValue(entriesStartOffset + n * EntrySize, offset,
                              isLittleEndian).value
       /\ i = k
       /\ \A r \in reads :
            r.what \in {"tagId", "type", "count", "valueOffset", "short", "long"}
              => r.at < entriesStartOffset + k * EntrySize + 2

C6_Witness ==
  /\ pc = "done" /\ InGetTags /\ HasUnknown /\ Returned
  /\ FirstUnknown = 1
  /\ countTags = 3
  /\ Known(2)
  /\ Keys(result.entries) = {"Orientation"}

(* C7: every multi-byte read made after the byte-order code (the magic,    *)
(* the IFD offset, the entry count, each entry's tag ID, type, count,      *)
(* value/offset field and value, the two RATIONAL integers) is made in     *)
(* the byte order that code selects, 0x4949 little-endian and 0x4D4D       *)
(* big-endian, and isLittleEndian holds that order throughout getTags.     *)
C7_ByteOrderFixed ==
  LET code == BigEndian(offset, 2)
      later == {"F42", "iFDOffset", "countTags", "tagId", "type", "count",
                "valueOffset", "short", "long", "numerator", "denominator"}
  IN /\ \A r \in reads : r.what \in later =>
          \E o \in reads :
             /\ o.what = "byteOrder"
             /\ ValueOf(o) \in {BYTE_ORDER_LITTLE_ENDIAN, BYTE_ORDER_BIG_ENDIAN}
             /\ r.littleEndian = (ValueOf(o) = BYTE_ORDER_LITTLE_ENDIAN)
     /\ WasRead("countTags") =>
          /\ code \in {BYTE_ORDER_LITTLE_ENDIAN, BYTE_ORDER_BIG_ENDIAN}
          /\ isLittleEndian = (code = BYTE_ORDER_LITTLE_ENDIAN)

C7_Witness ==
  /\ Returned /\ isLittleEndian
  /\ \E r \in reads : r.what = "short" /\ r.littleEndian
  /\ \E r \in reads : r.what = "denominator" /\ r.littleEndian

(* C8: the entry getTags has just decoded, if of type ASCII with count C,  *)
(* has as value the string of the C-1 bytes (none when C = 0), one         *)
(* character per byte, found at entry offset + 8 when C <= 4 and at TIFF   *)
(* base + (bytes 8-11 of the entry) when C > 4.                            *)
C8_AsciiInlineUpTo4 ==
  (pc = "for" /\ InGetTags /\ i >= 1 /\ TypeOf(i - 1) = 2) =>
    LET C == CountOf(i - 1)
        from == IF C <= 4 THEN entriesStartOffset + (i - 1) * EntrySize + 8
                ELSE offset + Field(i - 1, 8, 4)
        value == Get(tags, TIFF_TAGS[TagIdOf(i - 1)])
    IN /\ value.kind = "string"
       /\ Len(value.chars) = (IF C = 0 THEN 0 ELSE C - 1)
       /\ \A n \in 1..Len(value.chars) : value.chars[n] = Byte(from + n - 1)

C8_Witness ==
  /\ pc = "for" /\ InGetTags /\ i = 2
  /\ TypeOf(0) = 2 /\ CountOf(0) = 5 /\ tags[1].value = String(<<65, 67, 77, 69>>)
  /\ TypeOf(1) = 2 /\ CountOf(1) = 4 /\ Len(tags[2].value.chars) = 3

(* C9, as claimed: every value of a returned mapping is a string, a        *)
(* number or a rational; an entry of another type code is left out.        *)
C9_OnlyDecodedValues ==
  Returned =>
    \A n \in DOMAIN result.entries :
       result.entries[n].value.kind \in {"string", "number", "rational"}

(* C9, amended: an entry whose tag ID is recognized and whose type code is *)
(* not 2, 3, 4 or 5 raises no error and is present in the mapping with the *)
(* value null; every value of a returned mapping is a string, a number, a  *)
(* rational or null.                                                       *)
C9_OtherTypesGiveNull ==
  /\ Returned =>
       \A n \in DOMAIN result.entries :
          result.entries[n].value.kind \in {"string", "number", "rational", "null"}
  /\ (pc = "for" /\ InGetTags /\ i >= 1 /\ TypeOf(i - 1) \notin {2, 3, 4, 5}) =>
       /\ TIFF_TAGS[TagIdOf(i - 1)] \in Keys(tags)
       /\ Get(tags, TIFF_TAGS[TagIdOf(i - 1)]) = Null
  /\ (state = "rejected" /\ WasRead("countTags")) => OutOfBoundsRead

C9_Witness ==
  /\ Returned
  /\ \E n \in DOMAIN result.entries :
        result.entries[n] = [name |-> "ResolutionUnit", value |-> Null]

(* C10: every iteration of the APP1 search that does not end the scan    *)
(* strictly increases the scan offset, whatever the buffer holds, and the *)
(* number of iterations never exceeds the buffer length.                  *)
C10_ScanTerminates ==
  /\ [][(pc = "while" /\ iterations' = iterations + 1 /\ pc' = "while")
          => offset' > offset]_vars
  /\ [](iterations <= length)

C10_Witness == pc = "while" /\ iterations = 1 /\ offset < length

====
